---- MODULE Spec2Model ----
(***************************************************************************)
(* Proof-of-ownership deduplication server (backend/server.py), its proof  *)
(* engine (backend/utils.py, backend/client.py) and the claimant.          *)
(*                                                                         *)
(* Representation.  Python str and bytes values are TLA+ strings.  An      *)
(* optional value (None or a string) is a sequence of length <= 1: << >>   *)
(* is None, <<s>> is the string s.  SHA-256 is modelled as a collision-    *)
(* free hash: the digest of x is the bracketed term "[" x "]"; contents,   *)
(* tags and seeds never contain a bracket, so the digest of x equals the   *)
(* digest of y exactly when x = y, and a digest is told apart from the     *)
(* bytes that precede it in a concatenation (it has a fixed length in the  *)
(* code).                                                                  *)
(***************************************************************************)
EXTENDS Integers, Sequences, FiniteSets, TLC

(* ------------------------------ bounds -------------------------------- *)
\* Block size of the segmenter.  utils.py sets 4096; the model scales it
\* down, every content below is sized relative to it.
BLOCK_SIZE == 2
\* Number of requests a run of the server receives.
MaxCalls == 5
\* Longest content, in blocks, the proof engine is applied to on its own.
MaxBlocks == 3

SERVER_STORAGE_PATH == "server_storage/"

None == << >>
Some(s) == << s >>

RECURSIVE Rep(_, _)
Rep(c, n) == IF n = 0 THEN "" ELSE c \o Rep(c, n - 1)

\* File contents a client can hold: one block (too small for the scheme)
\* and three blocks (two full ones and a remainder).
OneBlock == Rep("a", BLOCK_SIZE)
ThreeBlocks == Rep("b", 2 * BLOCK_SIZE) \o "a"
Contents == {OneBlock, ThreeBlocks}

\* Tag strings a client can send.  The server takes the tag from the
\* request as it is, so a tag can end in "_seed".
Tags == {"t", "t_seed"}
\* Values secrets.token_hex can return (all of one length).
Seeds == {"5e", "c7"}
\* Names of uploaded files (werkzeug's file.filename).
FileNames == {"f"}
\* Request-handler threads that can run /verify at the same time (the Flask
\* development server handles each request in a thread of its own).
Threads == {1, 2}

\* All byte strings over {a, b} of length n, and of length at most n.
RECURSIVE StrsOfLen(_)
StrsOfLen(n) ==
    IF n = 0 THEN {""}
    ELSE {s \o c : s \in StrsOfLen(n - 1), c \in {"a", "b"}}
StrsUpTo(n) == UNION {StrsOfLen(k) : k \in 0..n}

(* --------------------------- utils.py --------------------------------- *)
sha256(x) == "[" \o x \o "]"
\* bytes.hex() and hexdigest(): the text of a digest, a value other than
\* the digest's bytes; the text of digest d is written "hex:" d.
hex(d) == "hex:" \o d

Min(a, b) == IF a < b THEN a ELSE b

\* get_file_blocks that reads whole blocks only and stops at a short one.
RECURSIVE get_file_blocks_dropshort(_)
get_file_blocks_dropshort(content) ==
    LET block == IF Len(content) < BLOCK_SIZE THEN ""
                 ELSE SubSeq(content, 1, BLOCK_SIZE)
    IN  IF block = "" THEN << >>
        ELSE <<block>> \o get_file_blocks_dropshort(
                              SubSeq(content, Len(block) + 1, Len(content)))

\* get_file_blocks: successive reads of BLOCK_SIZE bytes until a read
\* returns nothing.
RECURSIVE get_file_blocks(_)
get_file_blocks(content) ==
    LET block == SubSeq(content, 1, Min(BLOCK_SIZE, Len(content)))
    IN  IF block = "" THEN << >>
        ELSE <<block>> \o get_file_blocks(SubSeq(content, Len(block) + 1, Len(content)))

prg(seed, index) == sha256(seed \o ToString(index))

\* hasher.update(chunk) for each chunk in turn: the hasher holds the bytes
\* fed so far.
RECURSIVE hasher_update(_, _)
hasher_update(data, chunks) ==
    IF chunks = << >> THEN data
    ELSE hasher_update(data \o chunks[1], Tail(chunks))

\* get_file_tag: the file is read in chunks of BLOCK_SIZE bytes, as
\* get_file_blocks reads it; the tag is the hex text of the digest.
get_file_tag(content) ==
    hex(sha256(hasher_update("", get_file_blocks(content))))

(* --------------------- proof engine, both sides ----------------------- *)
\* server_fold with the mask index one too small (prg(seed, i)).
RECURSIVE server_fold_index0(_, _, _, _)
server_fold_index0(blocks, seed, i, resp) ==
    IF i >= Len(blocks) THEN resp
    ELSE LET block_hash == sha256(blocks[i + 1] \o prg(seed, i))
         IN  server_fold_index0(blocks, seed, i + 1, sha256(resp \o block_hash))

\* The loop "for i in range(2, len(blocks))" with resp as accumulator;
\* i is the 0-based index of the code, blocks[i] is blocks[i + 1] here.
RECURSIVE server_fold(_, _, _, _)
server_fold(blocks, seed, i, resp) ==
    IF i >= Len(blocks) THEN resp
    ELSE LET block_hash == sha256(blocks[i + 1] \o prg(seed, i + 1))
         IN  server_fold(blocks, seed, i + 1, sha256(resp \o block_hash))

\* The outcome of a call of a proof function: ok is TRUE when the call
\* returned and value is what it returned (None or a hex string), ok is
\* FALSE when it raised err.
Returned(v) == [ok |-> TRUE, err |-> "", value |-> v]
Raised(e) == [ok |-> FALSE, err |-> e, value |-> None]

\* server_proof_of that counts the masks of the first two blocks from 0.
server_proof_of_index0(blocks, seed) ==
    IF Len(blocks) < 2 THEN Returned(None)
    ELSE LET para1 == sha256(blocks[1] \o prg(seed, 0))
             para2 == sha256(blocks[2] \o prg(seed, 1))
             resp == sha256(para1 \o para2)
         IN  Returned(Some(hex(server_fold(blocks, seed, 2, resp))))

\* server.py generate_server_proof from line 24 on, given the block list:
\* it returns None for fewer than 2 blocks.
server_proof_of(blocks, seed) ==
    IF Len(blocks) < 2 THEN Returned(None)
    ELSE LET para1 == sha256(blocks[1] \o prg(seed, 1))
             para2 == sha256(blocks[2] \o prg(seed, 2))
             resp == sha256(para1 \o para2)
         IN  Returned(Some(hex(server_fold(blocks, seed, 2, resp))))

generate_server_proof(content, seed) ==
    server_proof_of(get_file_blocks(content), seed)

\* user_fold that hashes the mask of a block and leaves the block out.
RECURSIVE user_fold_maskonly(_, _, _, _)
user_fold_maskonly(blocks, seed, i, resp) ==
    IF i >= Len(blocks) THEN resp
    ELSE LET block_hash == sha256(prg(seed, i + 1))
         IN  user_fold_maskonly(blocks, seed, i + 1, sha256(resp \o block_hash))

RECURSIVE user_fold(_, _, _, _)
user_fold(blocks, seed, i, resp) ==
    IF i >= Len(blocks) THEN resp
    ELSE LET block_hash == sha256(blocks[i + 1] \o prg(seed, i + 1))
         IN  user_fold(blocks, seed, i + 1, sha256(resp \o block_hash))

\* user_proof_of that joins the first two block hashes in reverse order.
user_proof_of_swapped(blocks, seed) ==
    IF Len(blocks) < 2 THEN Raised("ValueError")
    ELSE LET para1 == sha256(blocks[1] \o prg(seed, 1))
             para2 == sha256(blocks[2] \o prg(seed, 2))
             resp == sha256(para2 \o para1)
         IN  Returned(Some(hex(user_fold(blocks, seed, 2, resp))))

\* client.py generate_user_proof from line 14 on, given the block list:
\* it raises ValueError for fewer than 2 blocks.
user_proof_of(blocks, seed) ==
    IF Len(blocks) < 2 THEN Raised("ValueError")
    ELSE LET para1 == sha256(blocks[1] \o prg(seed, 1))
             para2 == sha256(blocks[2] \o prg(seed, 2))
             resp == sha256(para1 \o para2)
         IN  Returned(Some(hex(user_fold(blocks, seed, 2, resp))))

generate_user_proof(content, seed) ==
    user_proof_of(get_file_blocks(content), seed)

(* ------------------------------ state --------------------------------- *)
VARIABLES
    file_db,     \* server.py file_db: one dict for tag -> filepath and tag + '_seed' -> seed
    disk,        \* the files under server_storage/: filepath -> bytes
    th,          \* the /verify handler threads and their local variables
    resp,        \* the response to the last /check-file or /upload-file request
    ncalls,      \* the number of requests received
    registered,  \* history: the tags /upload-file has stored a file for
    chal,        \* history: per tag, the challenge outstanding and the one it replaced
    scen,        \* history: how far an uninterrupted upload exchange has come
    pf,          \* the proof engine applied on its own: inputs and results
    cl           \* client.py: the simulation's position and local variables

vars == <<file_db, disk, th, resp, ncalls, registered, chal, scen, pf, cl>>
server == <<file_db, disk, th, resp, ncalls, registered, chal, scen>>

\* dict.get; dict[k] = v; del dict[k]
db_get(db, k) == IF k \in DOMAIN db THEN Some(db[k]) ELSE None
db_set(db, k, v) == [x \in DOMAIN db \cup {k} |-> IF x = k THEN v ELSE db[x]]
db_del(db, k) == [x \in DOMAIN db \ {k} |-> db[x]]

\* Python truth value of an optional string: None and '' are false.
Falsy(o) == o = None \/ o = Some("")

\* The challenge outstanding for a tag.  last: "none" (no challenge issued,
\* or /check-file answered new), "spent" (a call of /verify has used the
\* challenge up) or the seed last issued; prev: the seed that one replaced,
\* "" when it replaced none.
NoChal == [last |-> "none", prev |-> ""]
Overtaken == [last |-> "asked", prev |-> ""]

\* A handler thread: its position and its local variables.  A local that
\* is not read again is None (filepath after line 83, all but the request
\* after the return).  content, call and dup are history.  content: the
\* bytes line 83 read.  call: chal of the tag when the call began, Overtaken
\* once /check-file was asked for the tag during the call.  dup: another
\* call has answered verified or failed from the very challenge whose seed
\* this call holds.
IdleThread ==
    [pc |-> "idle", tag |-> None, user_proof |-> None, filepath |-> None,
     seed |-> None, server_proof |-> None, status |-> "",
     content |-> None, call |-> NoChal, dup |-> FALSE]

NoResp == [op |-> "", tag |-> None, status |-> "", seed |-> None]
NoScen == [stage |-> 0, tag |-> "", p |-> 0]
NoPf == [op |-> "idle", content |-> "", seed |-> "", alt |-> << >>,
         user |-> Returned(None), server |-> Returned(None),
         altUser |-> Returned(None)]

ServerInit ==
    /\ file_db = << >>
    /\ disk = << >>
    /\ th = [p \in Threads |-> IdleThread]
    /\ resp = NoResp
    /\ ncalls = 0
    /\ registered = {}
    /\ chal = [t \in Tags |-> NoChal]
    /\ scen = NoScen

\* client.py: pc is the line attempt_upload is at ("off": not running,
\* "end": the simulation is over), data the parsed answer to the tag check,
\* chk and out what the tag check and the whole attempt of each user came to.
NoClient ==
    [pc |-> "off", user |-> "", content |-> "", file_tag |-> "", data |-> NoResp,
     chk |-> [u \in {"Alice", "Bob"} |-> ""],
     out |-> [u \in {"Alice", "Bob"} |-> ""]]

Init == ServerInit /\ pf = NoPf /\ cl = NoClient

\* Request fields as the handlers see them: absent or a string.
TagInputs == {None} \cup {Some(t) : t \in Tags}
\* Proofs a claimant can submit: none, or the proof of some content
\* under some seed value.
ProofInputs ==
    {None} \cup {generate_user_proof(c, s).value : c \in {ThreeBlocks}, s \in Seeds}

\* Requests /upload-file can receive: without a file part, with a file
\* part that has no file name, or with a named file and its bytes; each
\* with or without a tag.
UploadInputs ==
    {[hasFile |-> FALSE, filename |-> "", content |-> "", tag |-> t] :
        t \in TagInputs}
    \cup {[hasFile |-> TRUE, filename |-> "", content |-> "", tag |-> t] :
        t \in TagInputs}
    \cup {[hasFile |-> TRUE, filename |-> f, content |-> c, tag |-> t] :
        f \in FileNames, c \in Contents, t \in TagInputs}

\* History: when a request arrives, the answers of the calls of /verify
\* that have returned are kept no longer.
Forgotten == [p \in Threads |-> IF th[p].pc = "done" THEN IdleThread ELSE th[p]]

\* History: /check-file was asked for tag t, the outstanding challenge
\* becomes new; the calls of /verify under way for t have been overtaken.
Asked(t, new) ==
    /\ chal' = [chal EXCEPT ![t] =
                  IF new \in Seeds
                  THEN [last |-> new,
                        prev |-> IF chal[t].last \in Seeds THEN chal[t].last ELSE ""]
                  ELSE NoChal]
    /\ th' = [p \in Threads |->
                IF Forgotten[p].tag = Some(t)
                THEN [th[p] EXCEPT !.call = Overtaken] ELSE Forgotten[p]]

(* -------------------- POST /check-file (CheckTag) --------------------- *)
\* handle_upload_check that keeps the seed already pending for the tag and
\* answers with the new one.
handle_upload_check_keepfirst(file_tag) ==
    /\ IF Falsy(file_tag)
       THEN /\ resp' = [op |-> "check", tag |-> file_tag, status |-> "error", seed |-> None]
            /\ scen' = NoScen
            /\ th' = Forgotten
            /\ UNCHANGED <<file_db, chal>>
       ELSE IF file_tag[1] \in DOMAIN file_db
       THEN \E seed \in Seeds :
              /\ file_db' = IF file_tag[1] \o "_seed" \in DOMAIN file_db THEN file_db
                            ELSE db_set(file_db, file_tag[1] \o "_seed", seed)
              /\ resp' = [op |-> "check", tag |-> file_tag, status |-> "exists",
                          seed |-> Some(seed)]
              /\ Asked(file_tag[1], seed)
              /\ scen' = IF scen.stage = 2 /\ scen.tag = file_tag[1]
                         THEN [scen EXCEPT !.stage = 3] ELSE NoScen
       ELSE /\ resp' = [op |-> "check", tag |-> file_tag, status |-> "new", seed |-> None]
            /\ Asked(file_tag[1], "none")
            /\ scen' = [stage |-> 1, tag |-> file_tag[1], p |-> 0]
            /\ UNCHANGED file_db
    /\ UNCHANGED <<disk, registered>>

\* The membership test (line 43) and the store (line 45) are taken as one
\* step: a step of another handler between them matters only when it
\* deletes the tested key, that is when the tag is itself the seed key of
\* another tag under verification.
handle_upload_check(file_tag) ==
    /\ IF Falsy(file_tag)
       THEN /\ resp' = [op |-> "check", tag |-> file_tag, status |-> "error", seed |-> None]
            /\ scen' = NoScen
            /\ th' = Forgotten
            /\ UNCHANGED <<file_db, chal>>
       ELSE IF file_tag[1] \in DOMAIN file_db
       THEN \E seed \in Seeds :
              /\ file_db' = db_set(file_db, file_tag[1] \o "_seed", seed)
              /\ resp' = [op |-> "check", tag |-> file_tag, status |-> "exists",
                          seed |-> Some(seed)]
              /\ Asked(file_tag[1], seed)
              /\ scen' = IF scen.stage = 2 /\ scen.tag = file_tag[1]
                         THEN [scen EXCEPT !.stage = 3] ELSE NoScen
       ELSE /\ resp' = [op |-> "check", tag |-> file_tag, status |-> "new", seed |-> None]
            /\ Asked(file_tag[1], "none")
            /\ scen' = [stage |-> 1, tag |-> file_tag[1], p |-> 0]
            /\ UNCHANGED file_db
    /\ UNCHANGED <<disk, registered>>

(* ----------------- POST /upload-file (RegisterContent) ---------------- *)
\* file.save (line 65) and the dict store (line 66) are taken as one step.
upload_full_file(hasFile, filename, content, tag) ==
    /\ IF ~hasFile \/ filename = "" \/ Falsy(tag)
       THEN /\ resp' = [op |-> "upload", tag |-> tag, status |-> "error", seed |-> None]
            /\ scen' = NoScen
            /\ UNCHANGED <<file_db, disk, registered>>
       ELSE LET filepath == SERVER_STORAGE_PATH \o filename
            IN  /\ disk' = db_set(disk, filepath, content)
                /\ file_db' = db_set(file_db, tag[1], filepath)
                /\ resp' = [op |-> "upload", tag |-> tag, status |-> "uploaded",
                            seed |-> None]
                /\ registered' = registered \cup {tag[1]}
                /\ scen' = IF /\ scen.stage = 1 /\ scen.tag = tag[1]
                              /\ Len(get_file_blocks(content)) >= 2
                           THEN [scen EXCEPT !.stage = 2] ELSE NoScen
    /\ th' = Forgotten
    /\ UNCHANGED chal

(* -------------------- POST /verify (SubmitProof) ---------------------- *)
\* Thread p after its return.
Ended(p, status) ==
    [IdleThread EXCEPT !.pc = "done", !.tag = th[p].tag,
                       !.user_proof = th[p].user_proof,
                       !.status = status, !.call = th[p].call]

FinishScen(p) ==
    scen' = IF scen.stage = 4 /\ scen.p = p
            THEN [scen EXCEPT !.stage = 5] ELSE NoScen

Finish(p, status) ==
    /\ th' = [th EXCEPT ![p] = Ended(p, status)]
    /\ FinishScen(p)

\* History: thread q holds the seed of the same challenge as thread p.
\* Both read the seed at line 78 and /check-file has not been asked for
\* the tag since either call began, so both read the challenge that was
\* outstanding then.
SameChallenge(p, q) ==
    /\ q # p
    /\ th[q].pc \in {"l83", "l84"}
    /\ th[q].tag = th[p].tag
    /\ th[q].seed = th[p].seed
    /\ th[p].call.last \in Seeds
    /\ th[q].call = th[p].call

Continue(p) ==
    scen' = IF scen.stage = 4 /\ scen.p = p THEN scen ELSE NoScen

\* lines 73-77: read the request, look the file path up.
verify_l77(p, tag, user_proof) ==
    /\ th[p].pc \in {"idle", "done"}
    \* threads are interchangeable: a request takes the first free one
    /\ \A q \in Threads : q < p => th[q].pc \notin {"idle", "done"}
    /\ th' = [Forgotten EXCEPT ![p] =
                [IdleThread EXCEPT
                   !.pc = "l78", !.tag = tag, !.user_proof = user_proof,
                   !.filepath = IF tag = None THEN None ELSE db_get(file_db, tag[1]),
                   !.call = IF tag = None THEN NoChal ELSE chal[tag[1]]]]
    \* the claimant of the exchange holds the bytes it uploaded and the
    \* seed /check-file answered
    /\ scen' = IF /\ scen.stage = 3 /\ tag = Some(scen.tag)
                  /\ user_proof = generate_user_proof(
                                     disk[file_db[scen.tag]], resp.seed[1]).value
               THEN [scen EXCEPT !.stage = 4, !.p = p] ELSE NoScen
    /\ UNCHANGED <<file_db, disk, resp, registered, chal>>

\* lines 78-81: look the seed up; 404 when the path or the seed is missing.
\* tag + '_seed' raises TypeError when the request has no tag.
verify_l78(p) ==
    /\ th[p].pc = "l78"
    /\ IF th[p].tag = None THEN Finish(p, "TypeError")
       ELSE LET seed == db_get(file_db, th[p].tag[1] \o "_seed")
            IN  IF Falsy(th[p].filepath) \/ Falsy(seed)
                THEN Finish(p, "notfound")
                ELSE /\ th' = [th EXCEPT ![p].pc = "l83", ![p].seed = seed]
                     /\ Continue(p)
    /\ UNCHANGED <<file_db, disk, resp, registered, chal>>

\* line 83: recompute the proof from the stored file; open() raises
\* FileNotFoundError when the path names no file.
verify_l83(p) ==
    /\ th[p].pc = "l83"
    /\ IF th[p].filepath[1] \notin DOMAIN disk THEN Finish(p, "FileNotFoundError")
       ELSE LET content == disk[th[p].filepath[1]]
            IN  /\ th' = [th EXCEPT
                            ![p].pc = "l84", ![p].filepath = None,
                            ![p].content = Some(content),
                            ![p].server_proof =
                                generate_server_proof(content, th[p].seed[1]).value]
                /\ Continue(p)
    /\ UNCHANGED <<file_db, disk, resp, registered, chal>>

\* lines 84-91: delete the seed (KeyError when it is gone), compare.
verify_l84(p) ==
    /\ th[p].pc = "l84"
    /\ LET t == th[p].tag[1]
       IN  IF t \o "_seed" \notin DOMAIN file_db
           THEN Finish(p, "KeyError") /\ UNCHANGED <<file_db, chal>>
           ELSE /\ file_db' = db_del(file_db, t \o "_seed")
                /\ chal' = [chal EXCEPT
                              ![t] = IF chal[t].last \in Seeds
                                     THEN [last |-> "spent", prev |-> ""] ELSE chal[t]]
                /\ th' = [q \in Threads |->
                            IF q = p
                            THEN Ended(p, IF th[p].user_proof = th[p].server_proof
                                          THEN "verified" ELSE "failed")
                            ELSE IF SameChallenge(p, q)
                            THEN [th[q] EXCEPT !.dup = TRUE] ELSE th[q]]
                /\ FinishScen(p)
    /\ UNCHANGED <<disk, resp, registered>>

Call == ncalls < MaxCalls /\ ncalls' = ncalls + 1

CheckTag ==
    /\ Call
    /\ \E tag \in TagInputs : handle_upload_check(tag)
    /\ UNCHANGED <<pf, cl>>
RegisterContent ==
    /\ Call
    /\ \E r \in UploadInputs :
           upload_full_file(r.hasFile, r.filename, r.content, r.tag)
    /\ UNCHANGED <<pf, cl>>
SubmitProof ==
    /\ Call
    /\ \E p \in Threads, tag \in TagInputs, proof \in ProofInputs :
           verify_l77(p, tag, proof)
    /\ UNCHANGED <<pf, cl>>
\* A thread under way runs its next lines.
Lookup == (\E p \in Threads : verify_l78(p)) /\ UNCHANGED <<ncalls, pf, cl>>
Recompute == (\E p \in Threads : verify_l83(p)) /\ UNCHANGED <<ncalls, pf, cl>>
Compare == (\E p \in Threads : verify_l84(p)) /\ UNCHANGED <<ncalls, pf, cl>>

Next == CheckTag \/ RegisterContent \/ SubmitProof \/ Lookup \/ Recompute \/ Compare

Spec == Init /\ [][Next]_vars

(* ------------- the proof engine applied on its own -------------------- *)
\* Inputs: every content of at most MaxBlocks blocks over {a, b}, every
\* seed.  pf.alt is a block sequence derived from the content's blocks.
PureContents == StrsUpTo(MaxBlocks * BLOCK_SIZE)
\* Blocks a block of a content can be replaced by.
PureBlocks == StrsUpTo(BLOCK_SIZE) \ {""}

PureInit ==
    /\ ServerInit
    /\ cl = NoClient
    /\ pf \in {[NoPf EXCEPT !.op = "input", !.content = c, !.seed = s] :
                  c \in PureContents, s \in Seeds}

RemoveAt(seq, i) == SubSeq(seq, 1, i - 1) \o SubSeq(seq, i + 1, Len(seq))
SwapAt(seq, i, j) == [seq EXCEPT ![i] = seq[j], ![j] = seq[i]]

\* Both sides compute the proof of the content.
Prove ==
    /\ UNCHANGED <<server, cl>>
    /\ pf.op = "input"
    /\ pf' = [pf EXCEPT !.op = "proved",
                        !.user = generate_user_proof(pf.content, pf.seed),
                        !.server = generate_server_proof(pf.content, pf.seed)]

\* The segmenter reads the content: pf.alt is the list of its blocks.
Segment ==
    /\ UNCHANGED <<server, cl>>
    /\ pf.op = "input"
    /\ pf' = [pf EXCEPT !.op = "blocks", !.alt = get_file_blocks(pf.content)]

\* The claimant's proof of the blocks, and of the blocks changed in one place.
Derive(op, alt) ==
    pf' = [pf EXCEPT !.op = op, !.alt = alt,
                     !.user = generate_user_proof(pf.content, pf.seed),
                     !.altUser = user_proof_of(alt, pf.seed)]

OmitBlock ==
    /\ UNCHANGED <<server, cl>>
    /\ pf.op = "input"
    /\ \E i \in 1..Len(get_file_blocks(pf.content)) :
          Derive("omit", RemoveAt(get_file_blocks(pf.content), i))
SwapBlocks ==
    /\ UNCHANGED <<server, cl>>
    /\ pf.op = "input"
    /\ LET blocks == get_file_blocks(pf.content)
       IN  \E i, j \in 1..Len(blocks) :
              /\ i < j
              /\ blocks[i] # blocks[j]
              /\ Derive("swap", SwapAt(blocks, i, j))
SubstBlock ==
    /\ UNCHANGED <<server, cl>>
    /\ pf.op = "input"
    /\ LET blocks == get_file_blocks(pf.content)
       IN  \E i \in 1..Len(blocks), b \in PureBlocks :
              /\ b # blocks[i]
              /\ Derive("subst", [blocks EXCEPT ![i] = b])

PureNext == Prove \/ Segment \/ OmitBlock \/ SwapBlocks \/ SubstBlock

PureSpec == PureInit /\ [][PureNext]_vars

(* ------------------- client.py against the server -------------------- *)
TEST_FILE == "my_large_test_file.txt"

\* Flask's URL map (server.py lines 34, 52, 70): the view function a POST
\* to the path is routed to; a path with no rule is answered 404.
dispatch(path) ==
    IF path = "/check-file" THEN "handle_upload_check"
    ELSE IF path = "/upload-file" THEN "upload_full_file"
    ELSE IF path = "/verify" THEN "verify_ownership"
    ELSE "NotFound"

\* The tag check of line 47: the path it posts to and how it encodes the
\* body (data= sends a form, json= sends JSON).
TagCheckRequest == [path |-> "/upload", body |-> "form"]

\* attempt_upload returns (or an exception ends it): the simulation goes on
\* with Bob's attempt, then ends.
Return(user_name, result) ==
    cl' = [cl EXCEPT !.out[user_name] = result,
                     !.pc = IF user_name = "Alice" THEN "l35" ELSE "end",
                     !.user = IF user_name = "Alice" THEN "Bob" ELSE "",
                     !.file_tag = "", !.data = NoResp]

\* lines 35-43: the file exists (line 91 wrote it); compute its tag.
attempt_upload_l42(user_name) ==
    /\ cl.pc = "l35"
    /\ cl' = [cl EXCEPT !.pc = "l47", !.file_tag = get_file_tag(cl.content)]
    /\ UNCHANGED server

\* lines 46-52: post the tag.  A path with no rule is answered 404, and
\* handle_upload_check reads request.json, which fails on a form body;
\* raise_for_status then raises HTTPError, which line 50 catches.
attempt_upload_l47(user_name) ==
    /\ cl.pc = "l47"
    /\ IF /\ dispatch(TagCheckRequest.path) = "handle_upload_check"
          /\ TagCheckRequest.body = "json"
       THEN /\ handle_upload_check(Some(cl.file_tag))
            /\ cl' = [cl EXCEPT !.pc = "l55", !.data = resp',
                                !.chk[user_name] = resp'.status]
            /\ UNCHANGED ncalls
       ELSE /\ Return(user_name, "HTTPError")
            /\ UNCHANGED server

\* lines 55-64: the server answered new; upload the file under its tag.
attempt_upload_l55(user_name) ==
    /\ cl.pc = "l55"
    /\ cl.data.status = "new"
    /\ upload_full_file(TRUE, TEST_FILE, cl.content, Some(cl.file_tag))
    /\ Return(user_name, resp'.status)
    /\ UNCHANGED ncalls

\* lines 66-79: the server answered exists; compute the proof (ValueError
\* ends the program) and post it to /verify.
attempt_upload_l66(user_name) ==
    /\ cl.pc = "l55"
    /\ cl.data.status = "exists"
    /\ LET proof == generate_user_proof(cl.content, cl.data.seed[1])
       IN  IF ~proof.ok
           THEN Return(user_name, proof.err) /\ UNCHANGED server
           ELSE /\ verify_l77(1, Some(cl.file_tag), proof.value)
                /\ cl' = [cl EXCEPT !.pc = "l80"]
                /\ UNCHANGED ncalls

\* The client waits at line 79 while the server runs verify_ownership.
attempt_upload_wait(user_name) ==
    /\ cl.pc = "l80"
    /\ verify_l78(1) \/ verify_l83(1) \/ verify_l84(1)
    /\ UNCHANGED <<ncalls, cl>>

\* lines 80-84: read the answer; a fault's answer (500) is no JSON.
attempt_upload_l80(user_name) ==
    /\ cl.pc = "l80"
    /\ th[1].pc = "done"
    /\ Return(user_name,
              IF th[1].status = "verified" THEN "verified"
              ELSE IF th[1].status \in {"failed", "notfound"} THEN "failed"
              ELSE "JSONDecodeError")
    /\ UNCHANGED server

\* lines 55, 66: any other status: the function falls off its end.
attempt_upload_l84(user_name) ==
    /\ cl.pc = "l55"
    /\ cl.data.status \notin {"new", "exists"}
    /\ Return(user_name, "")
    /\ UNCHANGED server

attempt_upload(user_name) ==
    /\ cl.user = user_name
    /\ \/ attempt_upload_l42(user_name)
       \/ attempt_upload_l47(user_name)
       \/ attempt_upload_l55(user_name)
       \/ attempt_upload_l66(user_name)
       \/ attempt_upload_wait(user_name)
       \/ attempt_upload_l80(user_name)
       \/ attempt_upload_l84(user_name)
    /\ UNCHANGED pf

\* The simulation of lines 86-104: the test file holds any content; Alice
\* attempts the upload, then Bob attempts it with the same file.
ClientInit ==
    /\ ServerInit
    /\ pf = NoPf
    /\ cl \in {[NoClient EXCEPT !.pc = "l35", !.user = "Alice", !.content = c] :
                  c \in PureContents}

Alice == attempt_upload("Alice")
Bob == attempt_upload("Bob")

ClientNext == Alice \/ Bob

ClientSpec == ClientInit /\ [][ClientNext]_vars

(* ============================== claims ================================ *)
Done(p) == th[p].pc = "done"
\* A step in which thread p runs lines 84-91.
Compares(p) == th[p].pc = "l84" /\ th'[p].pc = "done"

\* C1: once a call of /verify for a tag with a pending challenge has
\* returned verified or failed, every call for the same tag that begins
\* later, with no /check-file for the tag in between, returns not found.
C1_SingleUse ==
    \A p \in Threads :
        Done(p) /\ th[p].tag # None /\ th[p].call.last = "spent" =>
            th[p].status = "notfound"

\* C2: /verify answers verified only when the submitted proof equals the
\* proof of the stored content (of at least 2 blocks) under the seed it
\* found pending; whenever it compares and they differ it answers failed.
C2_Step ==
    \A p \in Threads :
        Compares(p) /\ th'[p].status \in {"verified", "failed"} =>
            LET blocks == get_file_blocks(th[p].content[1])
                proof == user_proof_of(blocks, th[p].seed[1])
            IN  th'[p].status = "verified" <=>
                    /\ Len(blocks) >= 2
                    /\ proof.ok
                    /\ th[p].user_proof # None
                    /\ th[p].user_proof = proof.value
C2_Soundness == [][C2_Step]_vars

C4_Step ==
    /\ \A t \in Tags :
          chal'[t] # chal[t] /\ chal'[t].last \in Seeds =>
              db_get(file_db', t \o "_seed") = Some(chal'[t].last)
    /\ \A p \in Threads :
          /\ Compares(p)
          /\ th[p].call.last \in Seeds
          /\ th[p].user_proof # None
          /\ \E s \in Seeds \ {th[p].call.last} :
                th[p].user_proof = generate_user_proof(th[p].content[1], s).value
          => /\ th'[p].status # "verified"
             /\ chal[th[p].tag[1]] = th[p].call => th'[p].status = "failed"
C5_NoChallengeNotFound ==
    \A p \in Threads :
        Done(p) /\ th[p].tag # None /\ th[p].call.last \in {"none", "spent"} =>
            th[p].status = "notfound"

\* C6: /check-file answers exists, and issues a seed, exactly for the tags
\* /upload-file was called with; for every other tag it answers new.
C6_ExistsIffRegistered ==
    resp.op = "check" /\ resp.status \in {"exists", "new"} =>
        (resp.status = "exists" <=> resp.tag[1] \in registered)

\* C7: over fewer than 2 blocks the proof computation fails with an error
\* on both sides; over exactly 2 blocks it returns a proof on both sides.
C7_MinimumSize ==
    pf.op = "proved" =>
        LET n == Len(get_file_blocks(pf.content))
        IN  /\ n < 2 => ~pf.user.ok /\ ~pf.server.ok
            /\ n = 2 => /\ pf.user.ok /\ pf.user.value # None
                        /\ pf.server.ok /\ pf.server.value # None

\* C8: a request without a required field is rejected with a validation
\* error before any proof is computed: /check-file without tag answers
\* error, /verify without tag or without proof answers error and never
\* reaches line 83, and neither changes the stores.
C8_ValidationFirst ==
    /\ resp.op = "check" /\ resp.tag = None => resp.status = "error"
    /\ \A p \in Threads :
          /\ th[p].pc \in {"l83", "l84"} => th[p].tag # None /\ th[p].user_proof # None
          /\ Done(p) /\ (th[p].tag = None \/ th[p].user_proof = None) =>
                th[p].status = "error"

\* C9: a call of /verify that carries a tag and a proof and can read the
\* stored content ends verified, failed or not found, never in a fault.
C9_ThreeOutcomes ==
    \A p \in Threads :
        /\ Done(p)
        /\ th[p].tag # None
        /\ th[p].user_proof # None
        /\ th[p].status # "FileNotFoundError"
        => th[p].status \in {"verified", "failed", "notfound"}

\* C10: for a fixed seed, the proof of a block sequence differs from the
\* proof of the sequence with one block omitted, two different blocks
\* swapped, or one block replaced by a different block.
C10_BindingToContent ==
    pf.op \in {"omit", "swap", "subst"} /\ pf.user.ok =>
        pf.altUser.value # pf.user.value
\* The middle block of three was replaced and both sequences have a proof.
C10_Witness ==
    /\ pf.op = "subst"
    /\ Len(pf.alt) = 3
    /\ pf.alt[2] # get_file_blocks(pf.content)[2]
    /\ pf.alt[1] = get_file_blocks(pf.content)[1]
    /\ pf.alt[3] = get_file_blocks(pf.content)[3]
    /\ pf.user.ok /\ pf.altUser.ok
    /\ pf.altUser.value # pf.user.value

\* C11: the seed a call of /verify removes at line 84 is the seed it read
\* at line 78 and recomputed the server proof from; a challenge issued by
\* /check-file after the lookup is not removed by that call.
C11_Step ==
    \A p \in Threads :
        LET key == th[p].tag[1] \o "_seed"
        IN  /\ Compares(p)
            /\ key \in DOMAIN file_db
            /\ file_db[key] = chal[th[p].tag[1]].last
            => file_db[key] = th[p].seed[1]
C11_AtomicConsume == [][C11_Step]_vars

\* C12: at most one call of /verify answers verified or failed from the
\* seed of one challenge: a call that holds the seed of a challenge another
\* call has already answered from does not answer verified or failed.
C12_Step ==
    \A p \in Threads :
        Compares(p) /\ th[p].dup => th'[p].status \notin {"verified", "failed"}
C12_NoDoubleCheck == [][C12_Step]_vars

\* C13: /check-file and /verify leave the association from every
\* registered tag to its stored file as it is: the entry of a registered
\* tag changes only in a step of /upload-file for that tag.
C13_Step ==
    \A t \in registered :
        db_get(file_db', t) # db_get(file_db, t) =>
            /\ ncalls' = ncalls + 1
            /\ resp' = [op |-> "upload", tag |-> Some(t), status |-> "uploaded",
                        seed |-> None]
C13_Frame == [][C13_Step]_vars

\* C14: when a call of /verify that found a seed pending ends, with
\* verified, with failed or with an error raised while the stored file is
\* read, no seed is pending for its tag any more.
C14_Step ==
    \A p \in Threads :
        /\ th[p].pc \in {"l83", "l84"}
        /\ th'[p].pc = "done"
        /\ th'[p].status \in {"verified", "failed", "FileNotFoundError"}
        => th[p].tag[1] \o "_seed" \notin DOMAIN file_db'
C14_ConsumeFirst == [][C14_Step]_vars

\* C15: for at least 2 blocks the claimant's proof is the text of acc_N,
\* where acc_2 = H(H(b_1 || mask(seed, 1)) || H(b_2 || mask(seed, 2))) and
\* acc_i = H(acc_(i-1) || H(b_i || mask(seed, i))) for i = 3..N: the k-th
\* block is masked with index k, counted from 1, and folded once, in order.
RECURSIVE C15_Acc(_, _, _)
C15_Acc(b, seed, i) ==
    IF i = 2
    THEN sha256(sha256(b[1] \o prg(seed, 1)) \o sha256(b[2] \o prg(seed, 2)))
    ELSE sha256(C15_Acc(b, seed, i - 1) \o sha256(b[i] \o prg(seed, i)))
C15_ProofFold ==
    pf.op = "proved" =>
        LET b == get_file_blocks(pf.content)
        IN  Len(b) >= 2 =>
                pf.user = Returned(Some(hex(C15_Acc(b, pf.seed, Len(b)))))
\* The proof of three blocks was computed: the loop ran once.
C15_Witness ==
    /\ pf.op = "proved"
    /\ Len(get_file_blocks(pf.content)) = 3
    /\ pf.user.ok
    /\ pf.user.value =
          Some(hex(C15_Acc(get_file_blocks(pf.content), pf.seed, 3)))

\* C16: for a content of at least 2 blocks the claimant's function and the
\* server's function return the same proof, and computing it again from
\* the same content and seed returns the same value.
C16_SameProof ==
    pf.op = "proved" /\ Len(get_file_blocks(pf.content)) >= 2 =>
        /\ pf.user.ok /\ pf.server.ok
        /\ pf.user.value # None
        /\ pf.user.value = pf.server.value
        /\ generate_user_proof(pf.content, pf.seed) = pf.user
        /\ generate_server_proof(pf.content, pf.seed) = pf.server
\* Both sides proved a content of at least 2 blocks whose last block is short.
C16_Witness ==
    /\ pf.op = "proved"
    /\ Len(pf.content) > BLOCK_SIZE
    /\ Len(pf.content) % BLOCK_SIZE # 0
    /\ pf.user.ok /\ pf.server.ok
    /\ pf.server.value # None
    /\ pf.user.value = pf.server.value

\* C17: a content of length L is cut into ceil(L / BLOCK_SIZE) blocks, in
\* order: none empty, all but the last of length BLOCK_SIZE, the last of
\* length L - BLOCK_SIZE * (ceil(L / BLOCK_SIZE) - 1); joined they give the
\* content back; an empty content gives no block.
RECURSIVE C17_Join(_)
C17_Join(b) == IF b = << >> THEN "" ELSE b[1] \o C17_Join(Tail(b))
C17_Segmentation ==
    pf.op = "blocks" =>
        LET L == Len(pf.content)
            n == (L + BLOCK_SIZE - 1) \div BLOCK_SIZE
        IN  /\ Len(pf.alt) = n
            /\ \A i \in 1..Len(pf.alt) :
                  /\ pf.alt[i] # ""
                  /\ i < Len(pf.alt) => Len(pf.alt[i]) = BLOCK_SIZE
            /\ n > 0 => Len(pf.alt[n]) = L - BLOCK_SIZE * (n - 1)
            /\ C17_Join(pf.alt) = pf.content
            /\ L = 0 => pf.alt = << >>
\* A content of two full blocks and a shorter third one was cut.
C17_Witness ==
    /\ pf.op = "blocks"
    /\ Len(pf.content) = 2 * BLOCK_SIZE + 1
    /\ Len(pf.alt) = 3
    /\ Len(pf.alt[1]) = BLOCK_SIZE /\ Len(pf.alt[2]) = BLOCK_SIZE
    /\ Len(pf.alt[3]) = 1

\* C18: when the simulation is over (the file has at least 2 blocks), the
\* tag check of the first attempt was answered new and the file is
\* registered under its tag; the tag check of the second attempt was
\* answered exists and the attempt ended with ownership verified.
C18_ClientFlow ==
    cl.pc = "end" /\ Len(get_file_blocks(cl.content)) >= 2 =>
        /\ cl.chk["Alice"] = "new"
        /\ cl.out["Alice"] = "uploaded"
        /\ get_file_tag(cl.content) \in registered
        /\ cl.chk["Bob"] = "exists"
        /\ cl.out["Bob"] = "verified"

\* C19: the bytes a registered tag points to keep their content tag: the
\* content tag of the file stored for a registered tag changes only in a
\* step of /upload-file for that very tag.
C19_Step ==
    \A t \in registered :
        t \in DOMAIN file_db /\ file_db[t] \in DOMAIN disk =>
            \/ /\ t \in DOMAIN file_db'
               /\ file_db'[t] \in DOMAIN disk'
               /\ get_file_tag(disk'[file_db'[t]]) = get_file_tag(disk[file_db[t]])
            \/ /\ ncalls' = ncalls + 1
               /\ resp' = [op |-> "upload", tag |-> Some(t), status |-> "uploaded",
                           seed |-> None]
C19_ContentAddressed == [][C19_Step]_vars

====
